---------------------------- MODULE Spec2Model ----------------------------
(***************************************************************************)
(* A model of src/main.py: the answer normalizer (process_text), the       *)
(* vocabulary dictionaries and sample access of VQADataset, the VQA        *)
(* consensus score (VQA_criterion) and the train / eval passes.            *)
(*                                                                         *)
(* Python strings are sequences of one-character strings.  Floating-point  *)
(* quotients are kept exact as pairs <<numerator, denominator>>.           *)
(***************************************************************************)
EXTENDS Integers, Sequences, FiniteSets, TLC

VARIABLES
    text,        \* Normalizer: the string handed to process_text
    npc,         \* Normalizer: "in" | "once" | "twice"
    out1,        \* Normalizer: process_text(text)
    out2,        \* Normalizer: process_text(process_text(text))
    batch_pred,    \* Scorer: the predicted id of each sample of the batch
    batch_answers, \* Scorer: the annotator ids of each sample of the batch
    spc,           \* Scorer: "in" | "done"
    score,         \* Scorer: what VQA_criterion returned or raised
    stores,        \* Datasets: the VQADataset objects, by name
    last,          \* Datasets: the last call on a dataset and what it returned or raised
    mpc,           \* Datasets: the position of main() in its set-up, or which calls are open
    split,         \* Datasets: train_indices and valid_indices of main(), counted from 1
    rpc,           \* Pass: "Idle", the statement train()/eval() is at, "Done" or "Failed"
    rmode,         \* Pass: "train" for train(), "eval" for eval()
    nbatches,      \* Pass: len(dataloader)
    nfetched,      \* Pass: how many batches the for loop has fetched
    batch,         \* Pass: the batch in hand: answers and mode_answer of its samples
    pred_ids,      \* Pass: pred.argmax(1) of the batch in hand
    inter_loss,    \* Pass: loss.item() of the batch in hand
    totals,        \* Pass: total_loss, total_acc, simple_acc
    done,          \* Pass: inter_loss, inter_acc, inter_simple_acc of the batches accumulated
    oplog,         \* Pass: the calls on model, criterion and optimizer, in order
    params,        \* Pass: how many optimizer steps the model parameters have taken
    metrics        \* Pass: what train()/eval() returned

normVars == <<text, npc, out1, out2>>
scoreVars == <<batch_pred, batch_answers, spc, score>>
storeVars == <<stores, last, mpc, split>>
runVars ==
    <<rpc, rmode, nbatches, nfetched, batch, pred_ids, inter_loss, totals, done, oplog, params,
      metrics>>
vars == <<normVars, scoreVars, storeVars, runVars>>

\* the two dataset objects main() creates
StoreNames == {"all_dataset", "test_dataset"}

\* a VQADataset object before __init__ has run
NoStore ==
    [built |-> FALSE, answer |-> FALSE, df |-> <<>>,
     question2idx |-> <<>>, answer2idx |-> <<>>, idx2question |-> <<>>, idx2answer |-> <<>>]

\* the state of the parts a specification leaves alone
NormIdle == text = <<>> /\ npc = "off" /\ out1 = <<>> /\ out2 = <<>>
ScoreIdle == batch_pred = <<>> /\ batch_answers = <<>> /\ spc = "off" /\ score = [status |-> "none"]
NoSplit == [train_indices |-> <<>>, valid_indices |-> <<>>]
StoreIdle ==
    /\ stores = [n \in StoreNames |-> NoStore]
    /\ last = [op |-> "none"]
    /\ mpc = "off"
    /\ split = NoSplit

NoBatch == [answers |-> <<>>, mode_answer |-> <<>>]
ZeroTotals == [total_loss |-> 0, total_acc |-> <<0, 1>>, simple_acc |-> <<0, 1>>]
NoMetrics == [status |-> "none"]
RunIdle ==
    /\ rpc = "off" /\ rmode = "none" /\ nbatches = 0 /\ nfetched = 0
    /\ batch = NoBatch /\ pred_ids = <<>> /\ inter_loss = 0
    /\ totals = ZeroTotals /\ done = <<>> /\ oplog = <<>>
    /\ params = 0 /\ metrics = NoMetrics

-----------------------------------------------------------------------------
(* Characters and character classes of Python's re module (str patterns).   *)

Digits == {"0", "1", "2", "3", "4", "5", "6", "7", "8", "9"}

LowerLetters == <<"a", "b", "c", "d", "e", "f", "g", "h", "i", "j", "k", "l", "m",
                  "n", "o", "p", "q", "r", "s", "t", "u", "v", "w", "x", "y", "z">>

UpperLetters == <<"A", "B", "C", "D", "E", "F", "G", "H", "I", "J", "K", "L", "M",
                  "N", "O", "P", "Q", "R", "S", "T", "U", "V", "W", "X", "Y", "Z">>

Range(f) == {f[i] : i \in DOMAIN f}

\* \w : letters, digits and the underscore
IsWordChar(c) == c \in Range(LowerLetters) \cup Range(UpperLetters) \cup Digits \cup {"_"}

\* \d
IsDigit(c) == c \in Digits

\* \s
IsSpace(c) == c \in {" ", "\t", "\n"}

\* str.lower() on one character
LowerChar(c) ==
    IF c \in Range(UpperLetters)
    THEN LowerLetters[CHOOSE i \in DOMAIN UpperLetters : UpperLetters[i] = c]
    ELSE c

\* text.lower()
Lower(s) == [i \in 1..Len(s) |-> LowerChar(s[i])]

\* whether word w occurs in s starting at position i
MatchAt(s, i, w) ==
    /\ i + Len(w) - 1 <= Len(s)
    /\ \A k \in 1..Len(w) : s[i + k - 1] = w[k]

\* str.replace(w, r): leftmost, non-overlapping occurrences, scanning from i
RECURSIVE ReplaceFrom(_, _, _, _)
ReplaceFrom(s, i, w, r) ==
    IF i > Len(s) THEN <<>>
    ELSE IF MatchAt(s, i, w) THEN r \o ReplaceFrom(s, i + Len(w), w, r)
    ELSE <<s[i]>> \o ReplaceFrom(s, i + 1, w, r)

Replace(s, w, r) == ReplaceFrom(s, 1, w, r)

\* the dict num_word_to_digit, in its insertion (iteration) order
num_word_to_digit ==
    << <<<<"z","e","r","o">>, <<"0">>>>,
       <<<<"o","n","e">>, <<"1">>>>,
       <<<<"t","w","o">>, <<"2">>>>,
       <<<<"t","h","r","e","e">>, <<"3">>>>,
       <<<<"f","o","u","r">>, <<"4">>>>,
       <<<<"f","i","v","e">>, <<"5">>>>,
       <<<<"s","i","x">>, <<"6">>>>,
       <<<<"s","e","v","e","n">>, <<"7">>>>,
       <<<<"e","i","g","h","t">>, <<"8">>>>,
       <<<<"n","i","n","e">>, <<"9">>>>,
       <<<<"t","e","n">>, <<"1","0">>>> >>

\* the dict contractions, in its insertion (iteration) order
contractions ==
    << <<<<"d","o","n","t">>, <<"d","o","n","'","t">>>>,
       <<<<"i","s","n","t">>, <<"i","s","n","'","t">>>>,
       <<<<"a","r","e","n","t">>, <<"a","r","e","n","'","t">>>>,
       <<<<"w","o","n","t">>, <<"w","o","n","'","t">>>>,
       <<<<"c","a","n","t">>, <<"c","a","n","'","t">>>>,
       <<<<"w","o","u","l","d","n","t">>, <<"w","o","u","l","d","n","'","t">>>>,
       <<<<"c","o","u","l","d","n","t">>, <<"c","o","u","l","d","n","'","t">>>> >>

\* for word, digit in table.items(): text = text.replace(word, digit)
RECURSIVE ReplaceEach(_, _, _)
ReplaceEach(s, table, k) ==
    IF k > Len(table) THEN s
    ELSE ReplaceEach(Replace(s, table[k][1], table[k][2]), table, k + 1)

\* re.sub(r'(?<!\d)\.(?!\d)', '', text)
RECURSIVE RemovePeriodsFrom(_, _)
RemovePeriodsFrom(s, i) ==
    IF i > Len(s) THEN <<>>
    ELSE IF /\ s[i] = "."
            /\ ~(i > 1 /\ IsDigit(s[i - 1]))
            /\ ~(i < Len(s) /\ IsDigit(s[i + 1]))
         THEN RemovePeriodsFrom(s, i + 1)
         ELSE <<s[i]>> \o RemovePeriodsFrom(s, i + 1)

RemovePeriods(s) == RemovePeriodsFrom(s, 1)

\* \b between positions i-1 and i of s
WordBoundary(s, i) ==
    (i > 1 /\ i - 1 <= Len(s) /\ IsWordChar(s[i - 1]))
        # (i >= 1 /\ i <= Len(s) /\ IsWordChar(s[i]))

\* the alternatives of (a|an|the), in the order the regex tries them
articles == << <<"a">>, <<"a","n">>, <<"t","h","e">> >>

\* length of the match of \b(a|an|the)\b at position i, 0 when there is none
ArticleMatchLen(s, i) ==
    IF ~WordBoundary(s, i) THEN 0
    ELSE LET ok(k) == MatchAt(s, i, articles[k]) /\ WordBoundary(s, i + Len(articles[k]))
         IN IF \E k \in DOMAIN articles : ok(k)
            THEN Len(articles[CHOOSE k \in DOMAIN articles :
                                 ok(k) /\ \A j \in 1..(k - 1) : ~ok(j)])
            ELSE 0

\* re.sub(r'\b(a|an|the)\b', '', text)
RECURSIVE RemoveArticlesFrom(_, _)
RemoveArticlesFrom(s, i) ==
    IF i > Len(s) THEN <<>>
    ELSE IF ArticleMatchLen(s, i) > 0
         THEN RemoveArticlesFrom(s, i + ArticleMatchLen(s, i))
         ELSE <<s[i]>> \o RemoveArticlesFrom(s, i + 1)

RemoveArticles(s) == RemoveArticlesFrom(s, 1)

\* a variant that deletes the punctuation instead of putting a space for it
PunctDeleted(s) ==
    SelectSeq(s, LAMBDA c : IsWordChar(c) \/ IsSpace(c) \/ c \in {"'", ":"})

\* re.sub(r"[^\w\s':]", ' ', text)
PunctToSpace(s) ==
    [i \in 1..Len(s) |->
        IF IsWordChar(s[i]) \/ IsSpace(s[i]) \/ s[i] \in {"'", ":"} THEN s[i] ELSE " "]

\* end (exclusive) of the run of whitespace that starts at position i
RECURSIVE SpaceRunEnd(_, _)
SpaceRunEnd(s, i) ==
    IF i <= Len(s) /\ IsSpace(s[i]) THEN SpaceRunEnd(s, i + 1) ELSE i

\* re.sub(r'\s+,', ',', text)
RECURSIVE SpaceCommaFrom(_, _)
SpaceCommaFrom(s, i) ==
    IF i > Len(s) THEN <<>>
    ELSE LET j == SpaceRunEnd(s, i)
         IN IF j > i /\ j <= Len(s) /\ s[j] = ","
            THEN <<",">> \o SpaceCommaFrom(s, j + 1)
            ELSE <<s[i]>> \o SpaceCommaFrom(s, i + 1)

SpaceComma(s) == SpaceCommaFrom(s, 1)

\* re.sub(r'\s+', ' ', text)
RECURSIVE CollapseFrom(_, _)
CollapseFrom(s, i) ==
    IF i > Len(s) THEN <<>>
    ELSE IF IsSpace(s[i]) THEN <<" ">> \o CollapseFrom(s, SpaceRunEnd(s, i))
    ELSE <<s[i]>> \o CollapseFrom(s, i + 1)

\* str.strip()
RECURSIVE Strip(_)
Strip(s) ==
    IF s = <<>> THEN s
    ELSE IF IsSpace(s[1]) THEN Strip(Tail(s))
    ELSE IF IsSpace(s[Len(s)]) THEN Strip(SubSeq(s, 1, Len(s) - 1))
    ELSE s

CollapseStrip(s) == Strip(CollapseFrom(s, 1))

\* process_text(text): the eight steps in the order of the source
process_text(s) ==
    LET t1 == Lower(s)
        t2 == ReplaceEach(t1, num_word_to_digit, 1)
        t3 == RemovePeriods(t2)
        t4 == RemoveArticles(t3)
        t5 == ReplaceEach(t4, contractions, 1)
        t6 == PunctToSpace(t5)
        t7 == SpaceComma(t6)
    IN CollapseStrip(t7)

-----------------------------------------------------------------------------
(* The normalizer applied once and then again to its own output.            *)

\* most fragments an input string is put together from
MaxFrags == 3

\* the pieces the input strings are put together from: parts of a number word,
\* an apostrophe-less contraction, articles, an upper-case letter, a digit,
\* whitespace and punctuation
Fragments ==
    { <<"o">>, <<"n","e">>, <<"d","o","n","t">>, <<"h","e">>, <<"a">>,
      <<"T">>, <<"1">>, <<" ">>, <<".">>, <<"-">> }

RECURSIVE StringsOf(_)
StringsOf(n) ==
    IF n = 0 THEN {<<>>}
    ELSE StringsOf(n - 1) \cup {s \o f : s \in StringsOf(n - 1), f \in Fragments}

Strings == StringsOf(MaxFrags)

\* word in text
Contains(s, w) == \E i \in 1..Len(s) : MatchAt(s, i, w)

NormInit ==
    /\ text \in Strings
    /\ npc = "in"
    /\ out1 = <<>>
    /\ out2 = <<>>
    /\ ScoreIdle
    /\ StoreIdle
    /\ RunIdle

\* answer = process_text(answer["answer"])
NormalizeOnce ==
    /\ npc = "in"
    /\ out1' = process_text(text)
    /\ npc' = "once"
    /\ UNCHANGED <<text, out2, scoreVars, storeVars, runVars>>

\* process_text applied to a string that process_text returned
NormalizeAgain ==
    /\ npc = "once"
    /\ out2' = process_text(out1)
    /\ npc' = "twice"
    /\ UNCHANGED <<text, out1, scoreVars, storeVars, runVars>>

NormNext == NormalizeOnce \/ NormalizeAgain

NormSpec == NormInit /\ [][NormNext]_vars

\* the strings on which the second pass finds nothing left to do: no period
\* and, lower-cased, none of the apostrophe-less contracted forms
PlainText(s) ==
    /\ ~Contains(s, <<".">>)
    /\ \A k \in DOMAIN contractions : ~Contains(Lower(s), contractions[k][1])

\* C10 (as stated): process_text is idempotent on every input string,
\* process_text(process_text(s)) = process_text(s).
C10_Idempotent == npc = "twice" => out2 = out1

\* C10 (amended): process_text is idempotent on every input string that holds
\* no period and, lower-cased, none of the apostrophe-less contracted forms.
C10_IdempotentOnPlainText == (npc = "twice" /\ PlainText(text)) => out2 = out1

\* C10 witness: a plain input whose number word and punctuation the first
\* pass rewrote, normalized twice.
C10_Witness ==
    /\ npc = "twice"
    /\ PlainText(text)
    /\ Contains(text, <<"-">>)
    /\ Contains(text, <<"o","n","e">>)
    /\ Contains(out1, <<"1">>)
    /\ out2 = out1

-----------------------------------------------------------------------------
(* VQA_criterion.  A quotient x / y is the pair <<x, y>>; the sum of the    *)
(* min(num_match / 3, 1) terms is kept in thirds.                           *)

\* the number of answers a sample carries
NumAnnotators == 10

\* a variant of the inner loop that does not skip j = i
NumMatchAll(pred, answers, i) ==
    Cardinality({j \in 1..Len(answers) : pred = answers[j]})

\* the inner loop over j: the answers other than the i-th that equal pred
RECURSIVE NumMatchFrom(_, _, _, _)
NumMatchFrom(pred, answers, i, j) ==
    IF j > Len(answers) THEN 0
    ELSE IF i = j THEN NumMatchFrom(pred, answers, i, j + 1)
    ELSE IF pred = answers[j] THEN 1 + NumMatchFrom(pred, answers, i, j + 1)
    ELSE NumMatchFrom(pred, answers, i, j + 1)

NumMatch(pred, answers, i) == NumMatchFrom(pred, answers, i, 1)

\* min(num_match / 3, 1), in thirds
MinThirds(num_match) == IF num_match < 3 THEN num_match ELSE 3

\* the loop over i: acc += min(num_match / 3, 1), in thirds
RECURSIVE AccFrom(_, _, _)
AccFrom(pred, answers, i) ==
    IF i > Len(answers) THEN 0
    ELSE MinThirds(NumMatch(pred, answers, i)) + AccFrom(pred, answers, i + 1)

\* the loop over zip(batch_pred, batch_answers): total_acc += acc / 10, in thirtieths
RECURSIVE TotalAccFrom(_, _, _)
TotalAccFrom(bp, ba, k) ==
    IF k > Len(bp) \/ k > Len(ba) THEN 0
    ELSE AccFrom(bp[k], ba[k], 1) + TotalAccFrom(bp, ba, k + 1)

\* a variant that returns 0 for an empty batch and forgets to average
VQA_criterion_Sum(bp, ba) ==
    [status |-> "ok", num |-> TotalAccFrom(bp, ba, 1), den |-> 3 * 10]

\* VQA_criterion(batch_pred, batch_answers): total_acc / len(batch_pred),
\* a float divided by the int 0 raises ZeroDivisionError
VQA_criterion(bp, ba) ==
    IF Len(bp) = 0 THEN [status |-> "ZeroDivisionError"]
    ELSE [status |-> "ok", num |-> TotalAccFrom(bp, ba, 1), den |-> 3 * 10 * Len(bp)]

-----------------------------------------------------------------------------
(* The scorer applied to one batch.                                         *)

\* how many distinct answer ids the batches use
NumIds == 2

\* most samples in a batch of several samples
MaxBatch == 2

Ids == 0..(NumIds - 1)

\* the answers of one sample: every sequence of NumAnnotators ids
AnswerSeqs == [1..NumAnnotators -> Ids]

\* the answers of a sample in which the first m annotators said id 1 and the rest id 0
Agreeing(m) == [i \in 1..NumAnnotators |-> IF i <= m THEN 1 ELSE 0]

AgreeingSeqs == {Agreeing(m) : m \in 0..NumAnnotators}

\* the batches: the empty one, every batch of one sample, and the batches of
\* several samples whose answers are AgreeingSeqs
Batches ==
    {<<<<>>, <<>>>>}
        \cup {<<<<p>>, <<a>>>> : p \in Ids, a \in AnswerSeqs}
        \cup UNION {[1..n -> Ids] \X [1..n -> AgreeingSeqs] : n \in 2..MaxBatch}

ScoreInit ==
    /\ \E b \in Batches : batch_pred = b[1] /\ batch_answers = b[2]
    /\ spc = "in"
    /\ score = [status |-> "none"]
    /\ NormIdle
    /\ StoreIdle
    /\ RunIdle

\* inter_acc = VQA_criterion(pred.argmax(1), answers)
Score ==
    /\ spc = "in"
    /\ score' = VQA_criterion(batch_pred, batch_answers)
    /\ spc' = "done"
    /\ UNCHANGED <<batch_pred, batch_answers, normVars, storeVars, runVars>>

\* the caller takes the result and asks again for the same batch
ScoreAgain ==
    /\ spc = "done"
    /\ spc' = "in"
    /\ score' = [status |-> "none"]
    /\ UNCHANGED <<batch_pred, batch_answers, normVars, storeVars, runVars>>

ScoreNext == Score \/ ScoreAgain

ScoreSpec == ScoreInit /\ [][ScoreNext]_vars

\* |{j # i : a[j] = p}|
OthersEqual(p, a, i) == Cardinality({j \in (1..Len(a)) \ {i} : a[j] = p})

\* sum over i of min(|{j # i : a[j] = p}|, 3): thirty times the score of one sample
RECURSIVE LeaveOneOutThirds(_, _, _)
LeaveOneOutThirds(p, a, I) ==
    IF I = {} THEN 0
    ELSE LET i == CHOOSE x \in I : TRUE
         IN (IF OthersEqual(p, a, i) < 3 THEN OthersEqual(p, a, i) ELSE 3)
                + LeaveOneOutThirds(p, a, I \ {i})

SampleThirtieths(p, a) == LeaveOneOutThirds(p, a, 1..Len(a))

RECURSIVE SumThirtieths(_, _, _)
SumThirtieths(bp, ba, K) ==
    IF K = {} THEN 0
    ELSE LET k == CHOOSE x \in K : TRUE
         IN SampleThirtieths(bp[k], ba[k]) + SumThirtieths(bp, ba, K \ {k})

\* C1: on a batch of one sample with 10 annotator ids the score is
\* (1/10) * sum over i of min(|{j # i : a[j] = p}| / 3, 1), and lies in [0, 1].
C1_LeaveOneOutScore ==
    (spc = "done" /\ Len(batch_pred) = 1 /\ Len(batch_answers[1]) = 10) =>
        /\ score.status = "ok"
        /\ score.num * 30 = SampleThirtieths(batch_pred[1], batch_answers[1]) * score.den
        /\ 0 <= score.num /\ score.num <= score.den

\* C1 witness: a scored sample in which the prediction matches some but not
\* all annotators and the clip at 1 applies to some leave-one-out views only:
\* three annotators agree with the prediction, each of them sees 2 matches
\* and each of the other seven sees 3, so the score is (3 * 2/3 + 7) / 10.
C1_Witness ==
    /\ spc = "done"
    /\ Len(batch_pred) = 1
    /\ Cardinality({j \in 1..10 : batch_answers[1][j] = batch_pred[1]}) = 3
    /\ score.status = "ok"
    /\ score.num * 10 = 9 * score.den

\* C9 (as stated): on a non-empty batch the result is the mean of the
\* per-sample scores; on an empty batch the call fails with InvalidArgument.
C9_MeanOrInvalidArgument ==
    spc = "done" =>
        IF Len(batch_pred) > 0
        THEN /\ score.status = "ok"
             /\ score.num * 30 * Len(batch_pred)
                    = SumThirtieths(batch_pred, batch_answers, 1..Len(batch_pred)) * score.den
        ELSE score.status = "InvalidArgument"

\* C9 (amended): on a non-empty batch the result is the mean of the
\* per-sample scores; on an empty batch the call raises ZeroDivisionError
\* and returns no value.
C9_MeanOrZeroDivision ==
    spc = "done" =>
        IF Len(batch_pred) > 0
        THEN /\ score.status = "ok"
             /\ score.num * 30 * Len(batch_pred)
                    = SumThirtieths(batch_pred, batch_answers, 1..Len(batch_pred)) * score.den
        ELSE score.status = "ZeroDivisionError" /\ DOMAIN score = {"status"}

\* C9 witness: a scored batch of two samples with different scores.
C9_Witness ==
    /\ spc = "done"
    /\ Len(batch_pred) = 2
    /\ SampleThirtieths(batch_pred[1], batch_answers[1])
          # SampleThirtieths(batch_pred[2], batch_answers[2])
    /\ score.status = "ok"

\* C9 witness of the failure: the empty batch was scored.
C9_EmptyWitness == spc = "done" /\ Len(batch_pred) = 0 /\ score.status = "ZeroDivisionError"

-----------------------------------------------------------------------------
(* VQADataset.  A Python dict is the sequence of its <<key, value>> items   *)
(* in insertion order.                                                      *)

Keys(d) == {d[i][1] : i \in DOMAIN d}

\* key in d
Has(d, k) == k \in Keys(d)

\* d[k] for a key of d
Get(d, k) == d[CHOOSE i \in DOMAIN d : d[i][1] = k][2]

\* d[k] = v
Put(d, k, v) ==
    IF Has(d, k)
    THEN [i \in DOMAIN d |-> IF d[i][1] = k THEN <<k, v>> ELSE d[i]]
    ELSE Append(d, <<k, v>>)

\* a variant that gives the word the next id whether or not it is known
AddWordAlways(d, w) == Put(d, w, Len(d))

\* if word not in d: d[word] = len(d)
AddWord(d, w) == IF ~Has(d, w) THEN Put(d, w, Len(d)) ELSE d

RECURSIVE AddWords(_, _, _)
AddWords(d, words, k) ==
    IF k > Len(words) THEN d ELSE AddWords(AddWord(d, words[k]), words, k + 1)

\* {v: k for k, v in d.items()}
RECURSIVE InvertFrom(_, _, _)
InvertFrom(d, i, acc) ==
    IF i > Len(d) THEN acc ELSE InvertFrom(d, i + 1, Put(acc, d[i][2], d[i][1]))

Invert(d) == InvertFrom(d, 1, <<>>)

\* question.split(" ")
RECURSIVE SplitFrom(_, _, _)
SplitFrom(s, i, cur) ==
    IF i > Len(s) THEN <<cur>>
    ELSE IF s[i] = " " THEN <<cur>> \o SplitFrom(s, i + 1, <<>>)
    ELSE SplitFrom(s, i + 1, Append(cur, s[i]))

Split(s) == SplitFrom(s, 1, <<>>)

\* the raw question strings of the data files
RawQuestions == { <<"T","h","e"," ","c","a","t">>, <<"o","n","e"," ","c","a","t">> }

\* the raw answer strings of the data files
RawAnswers == { <<"O","n","e">>, <<"1">>, <<"a"," ","c","a","t">> }

\* process_text on the strings of the data files
Normalized == [s \in RawQuestions \cup RawAnswers |-> process_text(s)]

\* the loop over self.df["question"]: the words of all questions, in order
RECURSIVE QuestionWords(_, _)
QuestionWords(df, k) ==
    IF k > Len(df) THEN <<>>
    ELSE Split(Normalized[df[k].question]) \o QuestionWords(df, k + 1)

\* the loops over self.df["answers"]: the normalized answers, in order
RECURSIVE AnswerWords(_, _)
AnswerWords(df, k) ==
    IF k > Len(df) THEN <<>>
    ELSE [j \in 1..Len(df[k].answers) |-> Normalized[df[k].answers[j]]]
            \o AnswerWords(df, k + 1)

BuildQuestionDict(df) == AddWords(<<>>, QuestionWords(df, 1), 1)

\* int(n_samples * 0.8)
TrainSize(n) == (n * 8) \div 10

\* a variant that reads the answers of the training range only
BuildAnswerDictTrainOnly(df) ==
    AddWords(<<>>, AnswerWords(SubSeq(df, 1, TrainSize(Len(df))), 1), 1)

BuildAnswerDict(df) == AddWords(<<>>, AnswerWords(df, 1), 1)

\* VQADataset.__init__(df_path, image_dir, transform, answer)
NewStore(df, answer) ==
    [built |-> TRUE, answer |-> answer, df |-> df,
     question2idx |-> BuildQuestionDict(df),
     idx2question |-> Invert(BuildQuestionDict(df)),
     answer2idx |-> IF answer THEN BuildAnswerDict(df) ELSE <<>>,
     idx2answer |-> IF answer THEN Invert(BuildAnswerDict(df)) ELSE <<>>]

\* the four dictionaries of a dataset
Dicts(st) == <<st.question2idx, st.answer2idx, st.idx2question, st.idx2answer>>

\* a variant that keeps the target's own entries and adds the source's
MergedInto(target, source) ==
    [target EXCEPT !.question2idx = AddWords(@, [i \in DOMAIN source.question2idx |->
                                                    source.question2idx[i][1]], 1),
                   !.answer2idx = source.answer2idx,
                   !.idx2question = source.idx2question,
                   !.idx2answer = source.idx2answer]

\* self.update_dict(dataset): the target after the four assignments
Updated(target, source) ==
    [target EXCEPT !.question2idx = source.question2idx,
                   !.answer2idx = source.answer2idx,
                   !.idx2question = source.idx2question,
                   !.idx2answer = source.idx2answer]

\* a variant that gives an unseen word the id after the last one
LookupOrUnknown(d, w) ==
    IF Has(d, w) THEN [found |-> TRUE, id |-> Get(d, w)] ELSE [found |-> TRUE, id |-> Len(d)]

\* self.answer2idx[word]: the id, or KeyError
Lookup(d, w) ==
    IF Has(d, w) THEN [found |-> TRUE, id |-> Get(d, w)] ELSE [found |-> FALSE]

\* how often x occurs in data
Count(data, x) == Cardinality({i \in DOMAIN data : data[i] = x})

\* a variant that takes the smallest of the most frequent values
ModeSmallest(data) ==
    CHOOSE x \in Range(data) :
        /\ \A y \in Range(data) : Count(data, y) <= Count(data, x)
        /\ \A y \in Range(data) : Count(data, y) = Count(data, x) => x <= y

\* Counter(iter(data)): the values in first-seen order, each with its count
RECURSIVE Counter(_, _, _)
Counter(data, i, acc) ==
    IF i > Len(data) THEN acc
    ELSE Counter(data, i + 1,
                 IF Has(acc, data[i]) THEN Put(acc, data[i], Get(acc, data[i]) + 1)
                 ELSE Put(acc, data[i], 1))

\* max(items, key=itemgetter(1)): the first item with the largest count
RECURSIVE MaxItem(_, _, _)
MaxItem(items, i, best) ==
    IF i > Len(items) THEN best
    ELSE MaxItem(items, i + 1, IF items[i][2] > best[2] THEN items[i] ELSE best)

\* statistics.mode(data) for non-empty data (Python 3.8 and later):
\* Counter(iter(data)).most_common(1)[0][0]
Mode(data) == LET items == Counter(data, 1, <<>>) IN MaxItem(items, 2, items[1])[1]

\* VQADataset.__getitem__(idx), idx counted from 1: what it returns or raises
GetItem(st, idx) ==
    IF st.answer
    THEN LET raw == st.df[idx].answers
             looked == [j \in 1..Len(raw) |-> Lookup(st.answer2idx, Normalized[raw[j]])]
         IN IF \E j \in 1..Len(raw) : ~looked[j].found
            THEN [status |-> "KeyError"]
            ELSE LET answers == [j \in 1..Len(raw) |-> looked[j].id]
                 IN [status |-> "ok", question |-> st.df[idx].question,
                     answers |-> answers, mode_answer_idx |-> Mode(answers)]
    ELSE [status |-> "ok", question |-> st.df[idx].question]

-----------------------------------------------------------------------------
(* The data files and the calls on the datasets.                            *)

\* most samples in a data file
MaxSamples == 2

\* the answers of one sample: two annotators (a tie or an agreement), or
\* three of whom the last two agree against the first; they stand for the
\* ten of the data files
AnswerLists ==
    (RawAnswers \X RawAnswers)
        \cup {<<p[1], p[2], p[2]>> : p \in {q \in RawAnswers \X RawAnswers : q[1] # q[2]}}

\* the samples of a data file with ground truth
Samples == [question : RawQuestions, answers : AnswerLists]

\* three samples: both answers normalize to "1"; "cat" before "1"; "1" before "cat"
FewSamples ==
    { [question |-> <<"T","h","e"," ","c","a","t">>, answers |-> << <<"O","n","e">>, <<"1">> >>],
      [question |-> <<"o","n","e"," ","c","a","t">>,
       answers |-> << <<"a"," ","c","a","t">>, <<"1">> >>],
      [question |-> <<"o","n","e"," ","c","a","t">>,
       answers |-> << <<"1">>, <<"a"," ","c","a","t">> >>] }

\* pandas.read_json(df_path): the files of n samples
DataFrames(S, n) == [1..n -> S]

\* a data file without ground truth has no answers
WithoutAnswers(df) == [k \in DOMAIN df |-> [question |-> df[k].question, answers |-> <<>>]]

\* dataset = VQADataset(df_path=..., answer=...)
Construct(name, df, answer) ==
    /\ ~stores[name].built
    /\ stores' = [stores EXCEPT ![name] =
                     NewStore(IF answer THEN df ELSE WithoutAnswers(df), answer)]
    /\ last' = [op |-> "init", store |-> name]

\* target.update_dict(source)
UpdateDict(target, source) ==
    /\ stores[target].built /\ stores[source].built
    /\ target # source
    /\ stores' = [stores EXCEPT ![target] = Updated(stores[target], stores[source])]
    /\ last' = [op |-> "update_dict", target |-> target, source |-> source]

\* dataset[idx], asked of the dataset itself or through a Subset (via)
CallGetItem(name, idx, via) ==
    /\ stores[name].built
    /\ idx \in 1..Len(stores[name].df)
    /\ last' = [op |-> "getitem", store |-> name, idx |-> idx, via |-> via,
                result |-> GetItem(stores[name], idx)]
    /\ UNCHANGED stores

OthersIdle == NormIdle /\ ScoreIdle /\ RunIdle

\* one dataset, any data file
DatasetInit ==
    /\ stores = [n \in StoreNames |-> NoStore]
    /\ last = [op |-> "none"]
    /\ mpc = "dataset"
    /\ split = NoSplit
    /\ OthersIdle

DatasetConstruct ==
    /\ ~stores["all_dataset"].built
    /\ \E n \in 1..MaxSamples, answer \in BOOLEAN : \E df \in DataFrames(Samples, n) :
          Construct("all_dataset", df, answer)
    /\ UNCHANGED <<mpc, split, normVars, scoreVars, runVars>>

DatasetGetItem ==
    \E idx \in 1..MaxSamples :
        /\ CallGetItem("all_dataset", idx, "all_dataset")
        /\ UNCHANGED <<mpc, split, normVars, scoreVars, runVars>>

DatasetNext == DatasetConstruct \/ DatasetGetItem

DatasetSpec == DatasetInit /\ [][DatasetNext]_vars

\* two datasets, each over a file of FewSamples, and every call on them
ApiInit ==
    /\ stores = [n \in StoreNames |-> NoStore]
    /\ last = [op |-> "none"]
    /\ mpc = "api"
    /\ split = NoSplit
    /\ OthersIdle

ApiConstruct ==
    /\ \E name \in {x \in StoreNames : ~stores[x].built}, n \in 1..MaxSamples,
          answer \in BOOLEAN :
          \E df \in DataFrames(FewSamples, n) : Construct(name, df, answer)
    /\ UNCHANGED <<mpc, split, normVars, scoreVars, runVars>>

ApiUpdateDict ==
    \E target \in StoreNames, source \in StoreNames :
        /\ UpdateDict(target, source)
        /\ UNCHANGED <<mpc, split, normVars, scoreVars, runVars>>

ApiGetItem ==
    \E name \in StoreNames, idx \in 1..MaxSamples :
        /\ CallGetItem(name, idx, name)
        /\ UNCHANGED <<mpc, split, normVars, scoreVars, runVars>>

ApiNext == ApiConstruct \/ ApiUpdateDict \/ ApiGetItem

ApiSpec == ApiInit /\ [][ApiNext]_vars

\* main(): the two datasets, the propagation, the split and then the loaders
MainInit ==
    /\ stores = [n \in StoreNames |-> NoStore]
    /\ last = [op |-> "none"]
    /\ mpc = "start"
    /\ split = NoSplit
    /\ OthersIdle

\* all_dataset = VQADataset(df_path="./data/train.json", ...)
MainConstructAll ==
    /\ mpc = "start"
    /\ \E n \in 1..MaxSamples : \E df \in DataFrames(FewSamples, n) :
          Construct("all_dataset", df, TRUE)
    /\ mpc' = "all_built"
    /\ UNCHANGED <<split, normVars, scoreVars, runVars>>

\* test_dataset = VQADataset(df_path="./data/valid.json", ..., answer=False)
MainConstructTest ==
    /\ mpc = "all_built"
    /\ \E n \in 1..MaxSamples : \E df \in DataFrames(FewSamples, n) :
          Construct("test_dataset", df, FALSE)
    /\ mpc' = "test_built"
    /\ UNCHANGED <<split, normVars, scoreVars, runVars>>

\* test_dataset.update_dict(all_dataset)
MainUpdateDict ==
    /\ mpc = "test_built"
    /\ UpdateDict("test_dataset", "all_dataset")
    /\ mpc' = "updated"
    /\ UNCHANGED <<split, normVars, scoreVars, runVars>>

\* train_size, train_indices, valid_indices and the two Subsets
MainSplit ==
    /\ mpc = "updated"
    /\ LET n_samples == Len(stores["all_dataset"].df)
           train_size == TrainSize(n_samples)
       IN split' = [train_indices |-> [k \in 1..train_size |-> k],
                    valid_indices |-> [k \in 1..(n_samples - train_size) |-> train_size + k]]
    /\ mpc' = "loaders"
    /\ UNCHANGED <<stores, last, normVars, scoreVars, runVars>>

\* train_loader fetches train_dataset[k]
TrainGet ==
    /\ mpc = "loaders"
    /\ \E k \in DOMAIN split.train_indices :
          CallGetItem("all_dataset", split.train_indices[k], "train_dataset")
    /\ UNCHANGED <<mpc, split, normVars, scoreVars, runVars>>

\* valid_loader fetches valid_dataset[k]
ValidGet ==
    /\ mpc = "loaders"
    /\ \E k \in DOMAIN split.valid_indices :
          CallGetItem("all_dataset", split.valid_indices[k], "valid_dataset")
    /\ UNCHANGED <<mpc, split, normVars, scoreVars, runVars>>

\* test_loader fetches test_dataset[k]
TestGet ==
    /\ mpc = "loaders"
    /\ \E k \in 1..MaxSamples : CallGetItem("test_dataset", k, "test_dataset")
    /\ UNCHANGED <<mpc, split, normVars, scoreVars, runVars>>

MainNext ==
    \/ MainConstructAll
    \/ MainConstructTest
    \/ MainUpdateDict
    \/ MainSplit
    \/ TrainGet
    \/ ValidGet
    \/ TestGet

MainSpec == MainInit /\ [][MainNext]_vars

-----------------------------------------------------------------------------
(* Properties of the datasets.                                              *)

\* the position of the first occurrence of x in a sequence that holds it
FirstPos(seq, x) == CHOOSE i \in DOMAIN seq : seq[i] = x /\ \A j \in 1..(i - 1) : seq[j] # x

\* x is one of the most frequent values of data
MostFrequent(data, x) ==
    x \in Range(data) /\ \A y \in Range(data) : Count(data, y) <= Count(data, x)

\* the last call was a __getitem__ that returned answer ids and a consensus id
GotAnswers ==
    /\ last.op = "getitem"
    /\ last.result.status = "ok"
    /\ "answers" \in DOMAIN last.result

\* C2 (as stated): consensus_id is the most frequent id of answer_ids and,
\* among ids tied for the highest frequency, the numerically smallest.
C2_SmallestOfMostFrequent ==
    GotAnswers =>
        /\ MostFrequent(last.result.answers, last.result.mode_answer_idx)
        /\ \A y \in Range(last.result.answers) :
              MostFrequent(last.result.answers, y) => last.result.mode_answer_idx <= y

\* C2 (amended): consensus_id is the most frequent id of answer_ids and,
\* among ids tied for the highest frequency, the one that occurs first in
\* answer_ids.
C2_FirstOfMostFrequent ==
    GotAnswers =>
        /\ MostFrequent(last.result.answers, last.result.mode_answer_idx)
        /\ \A y \in Range(last.result.answers) :
              MostFrequent(last.result.answers, y) =>
                  FirstPos(last.result.answers, last.result.mode_answer_idx)
                      <= FirstPos(last.result.answers, y)

\* C2 witness: a sample whose ids are tied and whose first id is not the smallest.
C2_Witness ==
    /\ GotAnswers
    /\ last.result.answers = <<1, 0>>
    /\ last.result.mode_answer_idx = 1

\* word2idx gives the distinct words of the stream ids 0..n-1 in first-seen
\* order, and idx2word is its inverse
IndexOf(word2idx, idx2word, words) ==
    LET n == Cardinality(Range(words))
    IN /\ Keys(word2idx) = Range(words)
       /\ Len(word2idx) = n
       /\ {Get(word2idx, w) : w \in Keys(word2idx)} = 0..(n - 1)
       /\ \A w \in Range(words) : Get(word2idx, w) = Cardinality(
              {v \in Range(words) : FirstPos(words, v) < FirstPos(words, w)})
       /\ Keys(idx2word) = 0..(n - 1)
       /\ Len(idx2word) = n
       /\ \A w \in Keys(word2idx) : Get(idx2word, Get(word2idx, w)) = w
       /\ \A k \in Keys(idx2word) : Get(word2idx, Get(idx2word, k)) = k

\* C5: after __init__ each index gives the k-th distinct normalized word seen
\* the id k-1, the ids are exactly 0..n-1, and id->word is the exact inverse
\* of word->id.
C5_FirstSeenIdsAndInverse ==
    \A name \in StoreNames :
        stores[name].built =>
            /\ IndexOf(stores[name].question2idx, stores[name].idx2question,
                       QuestionWords(stores[name].df, 1))
            /\ IndexOf(stores[name].answer2idx, stores[name].idx2answer,
                       AnswerWords(stores[name].df, 1))

\* C5 witness: a dataset built over answers in which a normalized word comes
\* back ("One" and later "1") after another word ("cat") was seen.
C5_Witness ==
    /\ stores["all_dataset"].built
    /\ stores["all_dataset"].answer
    /\ Len(stores["all_dataset"].df) = 2
    /\ stores["all_dataset"].df[1].answers = << <<"O","n","e">>, <<"a"," ","c","a","t">> >>
    /\ stores["all_dataset"].df[2].answers = << <<"a"," ","c","a","t">>, <<"1">> >>
    /\ stores["all_dataset"].answer2idx = << <<<<"1">>, 0>>, <<<<"c","a","t">>, 1>> >>

\* the sample the call asks for holds an answer whose normalized form the
\* dataset's answer index does not know
UnseenAnswer(st, idx) ==
    /\ st.answer
    /\ \E j \in DOMAIN st.df[idx].answers :
          Normalized[st.df[idx].answers[j]] \notin Keys(st.answer2idx)

\* C3: a __getitem__ changes no dictionary of any dataset, and on a sample
\* with an answer the answer index does not know it raises KeyError (a
\* LookupError) instead of returning ids.
C3_GetItemLeavesIndexFrozen ==
    [][last'.op = "getitem" =>
          /\ \A name \in StoreNames : Dicts(stores'[name]) = Dicts(stores[name])
          /\ UnseenAnswer(stores[last'.store], last'.idx) =>
                (last'.result.status = "KeyError" /\ DOMAIN last'.result = {"status"})
          /\ ~UnseenAnswer(stores[last'.store], last'.idx) => last'.result.status = "ok"]_vars

\* C3 witness: a dataset with ground truth took over another dataset's
\* non-empty answer index and was asked for a sample with an unseen answer.
C3_Witness ==
    /\ last.op = "getitem"
    /\ last.result.status = "KeyError"
    /\ stores[last.store].answer2idx # <<>>
    /\ stores[last.store].answer2idx # BuildAnswerDict(stores[last.store].df)

\* C6: after target.update_dict(source) the four dictionaries of target are
\* those of source, and those of source are as before.
C6_UpdateDictReplaces ==
    [][last'.op = "update_dict" =>
          /\ Dicts(stores'[last'.target]) = Dicts(stores[last'.source])
          /\ Dicts(stores'[last'.source]) = Dicts(stores[last'.source])]_vars

\* C6 witness: the target had built a question index of its own with a word
\* the source's does not have; after update_dict the word is gone.
C6_Witness ==
    /\ last.op = "update_dict"
    /\ \E w \in Keys(BuildQuestionDict(stores[last.target].df)) :
          w \notin Keys(stores[last.target].question2idx)
    /\ Dicts(stores[last.target]) = Dicts(stores[last.source])

\* the normalized answers of the samples of df at the given indices
AnswersAt(df, indices) ==
    UNION {{Normalized[df[indices[k]].answers[j]] : j \in DOMAIN df[indices[k]].answers} :
              k \in DOMAIN indices}

\* the normalized answers that occur in the validation range only
ValidOnlyAnswers ==
    AnswersAt(stores["all_dataset"].df, split.valid_indices)
        \ AnswersAt(stores["all_dataset"].df, split.train_indices)

\* the last call fetched a sample of valid_dataset
ValidFetched == last.op = "getitem" /\ last.via = "valid_dataset"

\* C4 (as stated): the answer index holds the answers of the training range
\* [0, train_size) only: an answer that occurs only in the validation range
\* is not in it, and fetching such a validation sample fails.
C4_IndexFromTrainingRangeOnly ==
    mpc = "loaders" =>
        /\ \A w \in ValidOnlyAnswers : w \notin Keys(stores["all_dataset"].answer2idx)
        /\ (ValidFetched /\ UnseenAnswer(stores["all_dataset"], last.idx)) =>
              last.result.status = "KeyError"

\* C4 (amended): the answer index is built from every sample of train.json,
\* the validation range [train_size, n) included: an answer that occurs only
\* in the validation range is in it, and fetching any validation sample
\* succeeds.
C4_IndexFromWholeFile ==
    mpc = "loaders" =>
        /\ Keys(stores["all_dataset"].answer2idx)
              = AnswersAt(stores["all_dataset"].df, split.train_indices)
                  \cup AnswersAt(stores["all_dataset"].df, split.valid_indices)
        /\ ValidFetched => last.result.status = "ok"

\* C4 witness: a validation sample with an answer no training sample has
\* was fetched, with its ids.
C4_Witness ==
    /\ mpc = "loaders"
    /\ ValidFetched
    /\ split.train_indices # <<>>
    /\ \E j \in DOMAIN stores["all_dataset"].df[last.idx].answers :
          Normalized[stores["all_dataset"].df[last.idx].answers[j]] \in ValidOnlyAnswers
    /\ last.result.status = "ok"

-----------------------------------------------------------------------------
(* train() and eval(): one pass over the batches of a dataloader.           *)

\* quotients are kept in lowest terms
RECURSIVE Gcd(_, _)
Gcd(a, b) == IF b = 0 THEN a ELSE Gcd(b, a % b)

Reduce(x) == LET g == Gcd(x[1], x[2]) IN <<x[1] \div g, x[2] \div g>>

\* x + y and x / n on quotients
RAdd(x, y) == Reduce(<<x[1] * y[2] + y[1] * x[2], x[2] * y[2]>>)

RDiv(x, n) == Reduce(<<x[1], x[2] * n>>)

\* x = y on quotients
REq(x, y) == x[1] * y[2] = y[1] * x[2]

\* most batches a dataloader yields
MaxBatches == 2

\* the batches a dataloader yields: the answers of each sample with the
\* consensus id __getitem__ computed for it
BatchOf(answers) ==
    [answers |-> answers, mode_answer |-> [i \in DOMAIN answers |-> Mode(answers[i])]]

RunBatches ==
    { BatchOf(<<Agreeing(NumAnnotators)>>),
      BatchOf(<<Agreeing(2), Agreeing(NumAnnotators)>>) }

\* the values loss.item() takes
Losses == {1, 2}

\* the calls of train() on one batch, in order
TrainOps == <<"forward", "loss", "zero_grad", "backward", "step", "accumulate">>

\* the calls of eval() on one batch, in order
EvalOps == <<"forward", "loss", "accumulate">>

\* a variant in which eval() too goes on to the optimizer
AfterLossAlwaysOptimizes(mode) == "zero_grad"

\* the statement after loss = criterion(...): train() goes on to
\* optimizer.zero_grad(), eval() to the accuracies
AfterLoss(mode) == IF mode = "train" THEN "zero_grad" ELSE "accumulate"

\* (pred.argmax(1) == mode_answer).float().mean().item()
SimpleAcc(p, mode_answer) ==
    <<Cardinality({i \in DOMAIN p : p[i] = mode_answer[i]}), Len(p)>>

\* a variant that overwrites the running sums with the batch's values
Overwritten(t, l, acc, simple) ==
    [total_loss |-> l, total_acc |-> acc, simple_acc |-> simple]

\* total_loss += inter_loss; total_acc += inter_acc; simple_acc += inter_simple_acc
Accumulated(t, l, acc, simple) ==
    [total_loss |-> t.total_loss + l,
     total_acc |-> RAdd(t.total_acc, acc),
     simple_acc |-> RAdd(t.simple_acc, simple)]

RunInit ==
    /\ rpc = "Idle" /\ rmode = "none" /\ nbatches = 0 /\ nfetched = 0
    /\ batch = NoBatch /\ pred_ids = <<>> /\ inter_loss = 0
    /\ totals = ZeroTotals /\ done = <<>> /\ oplog = <<>>
    /\ params = 0 /\ metrics = NoMetrics
    /\ NormIdle /\ ScoreIdle /\ StoreIdle

Others == <<normVars, scoreVars, storeVars>>

\* train(model, dataloader, ...) is called: model.train(), the sums set to 0
StartTrain ==
    /\ rpc = "Idle"
    /\ rmode' = "train"
    /\ nbatches' \in 0..MaxBatches
    /\ totals' = ZeroTotals
    /\ rpc' = "fetch"
    /\ UNCHANGED <<nfetched, batch, pred_ids, inter_loss, done, oplog, params, metrics, Others>>

\* eval(model, dataloader, ...) is called: model.eval(), the sums set to 0
StartEval ==
    /\ rpc = "Idle"
    /\ rmode' = "eval"
    /\ nbatches' \in 0..MaxBatches
    /\ totals' = ZeroTotals
    /\ rpc' = "fetch"
    /\ UNCHANGED <<nfetched, batch, pred_ids, inter_loss, done, oplog, params, metrics, Others>>

\* for image, question, answers, mode_answer in dataloader: the next batch
Fetch ==
    /\ rpc = "fetch"
    /\ nfetched < nbatches
    /\ batch' \in RunBatches
    /\ nfetched' = nfetched + 1
    /\ rpc' = "forward"
    /\ UNCHANGED <<rmode, nbatches, pred_ids, inter_loss, totals, done, oplog, params, metrics, Others>>

\* pred = model(image, question) returns
Forward ==
    /\ rpc = "forward"
    /\ pred_ids' \in [DOMAIN batch.answers -> Ids]
    /\ oplog' = Append(oplog, "forward")
    /\ rpc' = "loss"
    /\ UNCHANGED <<rmode, nbatches, nfetched, batch, inter_loss, totals, done, params, metrics, Others>>

\* pred = model(image, question) raises: the exception leaves train()/eval()
ForwardFails ==
    /\ rpc = "forward"
    /\ rpc' = "Failed"
    /\ UNCHANGED <<rmode, nbatches, nfetched, batch, pred_ids, inter_loss, totals, done, oplog,
                   params, metrics, Others>>

\* loss = criterion(pred, mode_answer.squeeze()) returns
Loss ==
    /\ rpc = "loss"
    /\ inter_loss' \in Losses
    /\ oplog' = Append(oplog, "loss")
    /\ rpc' = AfterLoss(rmode)
    /\ UNCHANGED <<rmode, nbatches, nfetched, batch, pred_ids, totals, done, params, metrics, Others>>

\* loss = criterion(...) raises: the exception leaves train()/eval()
LossFails ==
    /\ rpc = "loss"
    /\ rpc' = "Failed"
    /\ UNCHANGED <<rmode, nbatches, nfetched, batch, pred_ids, inter_loss, totals, done, oplog,
                   params, metrics, Others>>

\* optimizer.zero_grad()
ZeroGrad ==
    /\ rpc = "zero_grad"
    /\ oplog' = Append(oplog, "zero_grad")
    /\ rpc' = "backward"
    /\ UNCHANGED <<rmode, nbatches, nfetched, batch, pred_ids, inter_loss, totals, done, params,
                   metrics, Others>>

\* loss.backward()
Backward ==
    /\ rpc = "backward"
    /\ oplog' = Append(oplog, "backward")
    /\ rpc' = "step"
    /\ UNCHANGED <<rmode, nbatches, nfetched, batch, pred_ids, inter_loss, totals, done, params,
                   metrics, Others>>

\* optimizer.step(): the parameters change
Step ==
    /\ rpc = "step"
    /\ params' = params + 1
    /\ oplog' = Append(oplog, "step")
    /\ rpc' = "accumulate"
    /\ UNCHANGED <<rmode, nbatches, nfetched, batch, pred_ids, inter_loss, totals, done, metrics,
                   Others>>

\* inter_acc, inter_simple_acc and the three += of the loop body
Accumulate ==
    /\ rpc = "accumulate"
    /\ LET crit == VQA_criterion(pred_ids, batch.answers)
           inter_acc == <<crit.num, crit.den>>
           inter_simple_acc == SimpleAcc(pred_ids, batch.mode_answer)
       IN /\ totals' = Accumulated(totals, inter_loss, inter_acc, inter_simple_acc)
          /\ done' = Append(done, [inter_loss |-> inter_loss, inter_acc |-> inter_acc,
                                   inter_simple_acc |-> inter_simple_acc])
    /\ oplog' = Append(oplog, "accumulate")
    /\ rpc' = "fetch"
    /\ UNCHANGED <<rmode, nbatches, nfetched, batch, pred_ids, inter_loss, params, metrics, Others>>

\* return total_loss / len(dataloader), total_acc / len(dataloader),
\* simple_acc / len(dataloader), ...; with no batch the division by 0 raises
Return ==
    /\ rpc = "fetch"
    /\ nfetched = nbatches
    /\ IF nbatches = 0
       THEN rpc' = "Failed" /\ UNCHANGED metrics
       ELSE /\ rpc' = "Done"
            /\ metrics' = [status |-> "ok",
                           mean_loss |-> <<totals.total_loss, nbatches>>,
                           mean_acc |-> RDiv(totals.total_acc, nbatches),
                           mean_simple_acc |-> RDiv(totals.simple_acc, nbatches)]
    /\ UNCHANGED <<rmode, nbatches, nfetched, batch, pred_ids, inter_loss, totals, done, oplog,
                   params, Others>>

RunNext ==
    \/ StartTrain
    \/ StartEval
    \/ Fetch
    \/ Forward
    \/ ForwardFails
    \/ Loss
    \/ LossFails
    \/ ZeroGrad
    \/ Backward
    \/ Step
    \/ Accumulate
    \/ Return

RunSpec == RunInit /\ [][RunNext]_vars

\* the calls so far are the per-batch sequence ops, repeated, up to some point
Repeats(log, ops) == \A i \in DOMAIN log : log[i] = ops[((i - 1) % Len(ops)) + 1]

\* C7: in train() every batch goes forward, loss, zero_grad, backward, step
\* and only then into the accuracies, with one optimizer step per batch; in
\* eval() there is no zero_grad, backward or step, and the parameters at Done
\* are those at Idle.
C7_OneUpdatePerTrainBatchNoneInEval ==
    /\ rmode = "train" =>
          /\ Repeats(oplog, TrainOps)
          /\ rpc \in {"fetch", "Done"} =>
                (Len(oplog) = Len(TrainOps) * nfetched /\ params = nfetched)
          /\ rpc = "Done" => params = nbatches
    /\ rmode = "eval" =>
          /\ \A i \in DOMAIN oplog : oplog[i] \notin {"zero_grad", "backward", "step"}
          /\ Repeats(oplog, EvalOps)
          /\ params = 0

\* C7 witness: a train() pass over two batches is Done, with two updates.
C7_Witness == rmode = "train" /\ rpc = "Done" /\ nbatches = 2 /\ params = 2

RECURSIVE SumLoss(_, _)
SumLoss(d, i) == IF i > Len(d) THEN 0 ELSE d[i].inter_loss + SumLoss(d, i + 1)

RECURSIVE SumAcc(_, _)
SumAcc(d, i) == IF i > Len(d) THEN <<0, 1>> ELSE RAdd(d[i].inter_acc, SumAcc(d, i + 1))

RECURSIVE SumSimple(_, _)
SumSimple(d, i) == IF i > Len(d) THEN <<0, 1>> ELSE RAdd(d[i].inter_simple_acc, SumSimple(d, i + 1))

\* C8: metrics are returned only at Done, after every batch of the
\* dataloader went through the loop body once, and they are the sums of the
\* per-batch loss and accuracies divided by the number of batches; after a
\* failure of the model or the criterion nothing more happens in the pass and
\* no metrics are returned.
C8_MetricsOnlyOfACompletePass ==
    /\ metrics.status = "ok" <=> rpc = "Done"
    /\ rpc = "Done" =>
          /\ nfetched = nbatches /\ Len(done) = nbatches
          /\ Cardinality({i \in DOMAIN oplog : oplog[i] = "forward"}) = nbatches
          /\ REq(metrics.mean_loss, <<SumLoss(done, 1), nbatches>>)
          /\ REq(metrics.mean_acc, RDiv(SumAcc(done, 1), nbatches))
          /\ REq(metrics.mean_simple_acc, RDiv(SumSimple(done, 1), nbatches))
    /\ rpc = "Failed" => (metrics = NoMetrics /\ ~ENABLED RunNext)

\* C8 witness: a pass over two batches with different losses and accuracies
\* is Done.
C8_Witness ==
    /\ rpc = "Done"
    /\ Len(done) = 2
    /\ done[1].inter_loss # done[2].inter_loss
    /\ ~REq(done[1].inter_acc, done[2].inter_acc)
    /\ ~REq(done[1].inter_simple_acc, done[2].inter_simple_acc)

\* C8 witness of the failure: the criterion failed on the second batch.
C8_FailedWitness == rpc = "Failed" /\ nfetched = 2 /\ Len(done) = 1 /\ Len(oplog) % 3 = 1

=============================================================================
